---- MODULE Spec2Model ----
(***************************************************************************)
(* Weather Data Visualization App: the chart aggregation of                *)
(* WeatherCharts.tsx (aggregateData), the search flows of App.tsx and      *)
(* SearchBar.tsx, and the rendering of AIPatternsPanel.tsx.                *)
(*                                                                         *)
(* Strings are modelled as tuples of integers:                             *)
(*   an ISO timestamp  "yyyy-MM-ddTHH:mm:00" + zone  is                    *)
(*        <<yyyy, MM, dd, HH, mm, z>>, z = 1 for a trailing "Z" (UTC),     *)
(*        z = 0 for no zone designator;                                    *)
(*   a label 'dd/MM HH:mm' is <<dd, MM, HH, mm>>; a key 'yyyy-MM-dd' is    *)
(*   <<yyyy, MM, dd>>; a key 'yyyy-MM' is <<yyyy, MM>>.                    *)
(* JavaScript numbers are modelled as exact rationals [n, d] in lowest     *)
(* terms (d > 0).  Instants are minutes since 2024-01-01T00:00 UTC.        *)
(***************************************************************************)
EXTENDS Integers, Sequences, FiniteSets, TLC

VARIABLES
    \* ---- WeatherCharts.tsx
    series,        \* props.data.time_series
    aggregation,   \* useState<AggregationType>
    chartData,     \* useMemo(() => aggregateData(data.time_series, aggregation))
    tz,            \* the environment's local timezone: minutes east of UTC
    \* ---- App.tsx
    weatherData,   \* useState<WeatherData | null>: <<>> or <<id of the search>>
    aiPatterns,    \* useState<Record | null>: <<>> or <<id of the search>>
    loading,       \* useState(false)
    error,         \* useState<string | null>: <<>> or <<message>>
    searches,      \* the calls of handleSearch, in the order they started
    finished,      \* <<>> or <<the call that returned last, as it ended>>
    \* ---- SearchBar.tsx
    query,         \* useState('')
    results,       \* useState<LocationResult[]>([])
    showResults,   \* useState(false)
    selectedResult,\* useState<LocationResult | null>: <<>> or <<candidate>>
    debounce,      \* debounceRef: <<>> or <<query the pending timer's closure holds>>
    lookups,       \* the /api/search requests in flight, each with its query
    focused,       \* the text input has the focus
    blurTimers,    \* pending `setTimeout(() => setShowResults(false), 200)` of onBlur
    \* ---- AIPatternsPanel.tsx
    patterns,      \* props.patterns: <<>> (not mounted) or <<pattern result>>
    panel          \* what AIPatternsPanel returned: <<>> (null) or <<section>>

chartVars == <<series, aggregation, chartData, tz>>

appVars == <<weatherData, aiPatterns, loading, error, searches, finished>>

barVars == <<query, results, showResults, selectedResult, debounce, lookups,
             focused, blurTimers>>

panelVars == <<patterns, panel>>

\* the components App renders below the search bar
viewVars == <<chartVars, panelVars>>

vars == <<chartVars, appVars, barVars, panelVars>>

----------------------------------------------------------------------------
(* Bounds of the model *)

\* longest series
MaxLen == 48
\* number of value patterns of the input series
MaxSeed == 1
\* number of weather searches a behaviour starts
MaxSearches == 2
\* number of /api/search requests in flight at once
MaxLookups == 1
\* number of onBlur timers pending at once
MaxBlurTimers == 1

\* the environments' timezones, minutes east of UTC
TimeZones == {-60, 0, 120}
\* first instants of the input series (2024-01-01T00:00, 2024-01-01T23:30,
\* 2024-01-30T22:00, 2024-12-30T00:00)
Starts == {0, 1410, 43080, 524160}
\* minutes between two points of a series (negative: a descending series)
Steps == {60, 180, -60}
\* lengths of the input series: the shortest ones, those around the
\* 24-point threshold of aggregateData, and the longest ones
Lengths == {n \in 1..MaxLen : n <= 2 \/ n \in 23..26 \/ n >= MaxLen - 1}

----------------------------------------------------------------------------
(* The calendar, as date-fns computes it from an instant; the epoch is     *)
(* 2024-01-01T00:00                                                         *)

IsLeap(y) == (y % 4 = 0 /\ y % 100 # 0) \/ y % 400 = 0

DaysInYear(y) == IF IsLeap(y) THEN 366 ELSE 365

DaysInMonth(y, m) ==
    IF m = 2 THEN (IF IsLeap(y) THEN 29 ELSE 28)
    ELSE IF m \in {4, 6, 9, 11} THEN 30 ELSE 31

\* days from the epoch to the first day of year y
RECURSIVE DaysBeforeYear(_)
DaysBeforeYear(y) ==
    IF y = 2024 THEN 0
    ELSE IF y > 2024 THEN DaysBeforeYear(y - 1) + DaysInYear(y - 1)
    ELSE DaysBeforeYear(y + 1) - DaysInYear(y)

\* days from the first day of year y to the first day of its month m
DaysBeforeMonth(y, m) ==
    <<0, 31, 59, 90, 120, 151, 181, 212, 243, 273, 304, 334>>[m]
    + (IF m > 2 /\ IsLeap(y) THEN 1 ELSE 0)

\* floor division and the matching remainder, for negative instants too
FloorDiv(a, b) == IF a >= 0 THEN a \div b ELSE -((-a + b - 1) \div b)
FloorMod(a, b) == a - b * FloorDiv(a, b)

\* the year holding day number dn (days since the epoch), searched from y
RECURSIVE YearOfDay(_, _)
YearOfDay(dn, y) ==
    IF dn < DaysBeforeYear(y) THEN YearOfDay(dn, y - 1)
    ELSE IF dn >= DaysBeforeYear(y) + DaysInYear(y) THEN YearOfDay(dn, y + 1)
    ELSE y

\* the month of year y holding day-of-year doy (0-based), searched from m
RECURSIVE MonthOfDay(_, _, _)
MonthOfDay(y, doy, m) ==
    IF doy < DaysBeforeMonth(y, m) + DaysInMonth(y, m) THEN m
    ELSE MonthOfDay(y, doy, m + 1)

\* calendar components <<yyyy, MM, dd, HH, mm>> of a wall-clock minute
\* count, found in turn: the day and the minute of the day, the year, the
\* month, the day of the month
DateTimeInMonth(y, m, doy, mod) ==
    <<y, m, doy - DaysBeforeMonth(y, m) + 1, mod \div 60, mod % 60>>

DateTimeInYear(y, doy, mod) == DateTimeInMonth(y, MonthOfDay(y, doy, 1), doy, mod)

DateTimeOfYear(y, dn, mod) == DateTimeInYear(y, dn - DaysBeforeYear(y), mod)

DateTimeOfDay(dn, mod) == DateTimeOfYear(YearOfDay(dn, 2024), dn, mod)

Components(minutes) ==
    DateTimeOfDay(FloorDiv(minutes, 1440), FloorMod(minutes, 1440))

\* wall-clock minute count of calendar components
WallMinutes(y, m, d, h, mi) ==
    (DaysBeforeYear(y) + DaysBeforeMonth(y, m) + (d - 1)) * 1440 + h * 60 + mi

----------------------------------------------------------------------------
(* date-fns parseISO and format *)

\* parseISO(ts): the instant (UTC minutes) a timestamp string denotes in an
\* environment whose timezone is zone.  A string ending in "Z" is read as
\* UTC; a string without designator is read as local time.
parseISO(ts, zone) ==
    WallMinutes(ts[1], ts[2], ts[3], ts[4], ts[5]) - (IF ts[6] = 1 THEN 0 ELSE zone)

\* the fields a pattern prints of calendar components c
Fields(c, pattern) ==
    CASE pattern = "dd/MM HH:mm" -> <<c[3], c[2], c[4], c[5]>>
      [] pattern = "yyyy-MM-dd"  -> <<c[1], c[2], c[3]>>
      [] pattern = "yyyy-MM"     -> <<c[1], c[2]>>

\* format(d, pattern): the pattern's fields of the instant's LOCAL calendar
\* components in an environment whose timezone is zone
format(d, pattern, zone) == Fields(Components(d + zone), pattern)

----------------------------------------------------------------------------
(* JavaScript numbers as exact rationals *)

RECURSIVE Gcd(_, _)
Gcd(a, b) == IF b = 0 THEN a ELSE Gcd(b, a % b)

Abs(a) == IF a < 0 THEN -a ELSE a

\* n/d divided through by a common divisor g
Reduced(n, d, g) ==
    IF g = 0 THEN [n |-> 0, d |-> 1] ELSE [n |-> n \div g, d |-> d \div g]

\* the rational n/d (d > 0) in lowest terms
Rat(n, d) == Reduced(n, d, Gcd(Abs(n), d))

\* a + b
Plus(a, b) == Rat(a.n * b.d + b.n * a.d, a.d * b.d)

\* a / k for a positive integer k
DivBy(a, k) == Rat(a.n, a.d * k)

\* arr.reduce((a, b) => a + b, 0): the sum of arr[lo..hi]; rational addition
\* is associative, so the halves are summed separately (shallow recursion)
RECURSIVE SumRange(_, _, _)
SumRange(arr, lo, hi) ==
    IF lo > hi THEN Rat(0, 1)
    ELSE IF lo = hi THEN Plus(Rat(0, 1), arr[lo])
    ELSE LET mid == (lo + hi) \div 2
         IN  Plus(SumRange(arr, lo, mid), SumRange(arr, mid + 1, hi))

ReduceSum(arr) == SumRange(arr, 1, Len(arr))

----------------------------------------------------------------------------
(* aggregateData, WeatherCharts.tsx *)

AggregationType == {"hourly", "daily", "monthly"}

\* `series.length <= 24`
HourlyMax == 24

\* a slip in the field mapping: the two percentages exchanged
HourlyPointSwapped(p, zone) ==
    [ label              |-> format(parseISO(p.timestamp, zone), "dd/MM HH:mm", zone),
      cloud_cover_pct    |-> p.lightning_prob_pct,
      lightning_prob_pct |-> p.cloud_cover_pct,
      timestamp          |-> p.timestamp ]

\* series.map((p) => ({label: format(parseISO(p.timestamp), 'dd/MM HH:mm'), ...}))
HourlyPoint(p, zone) ==
    [ label              |-> format(parseISO(p.timestamp, zone), "dd/MM HH:mm", zone),
      cloud_cover_pct    |-> p.cloud_cover_pct,
      lightning_prob_pct |-> p.lightning_prob_pct,
      timestamp          |-> p.timestamp ]

HourlyMap(s, zone) == [i \in 1..Len(s) |-> HourlyPoint(s[i], zone)]

\* the bucket key of one point:
\* agg === 'daily' ? format(d, 'yyyy-MM-dd') : format(d, 'yyyy-MM')
BucketKey(p, agg, zone) ==
    format(parseISO(p.timestamp, zone),
           IF agg = "daily" THEN "yyyy-MM-dd" ELSE "yyyy-MM", zone)

\* the key computed on each iteration of series.forEach
Keys(s, agg, zone) == [i \in 1..Len(s) |-> BucketKey(s[i], agg, zone)]

\* the iterations on which `!grouped[key]` holds, in order: the indices
\* whose key no earlier point has
FirstSeen(keys) ==
    SelectSeq([i \in DOMAIN keys |-> i],
              LAMBDA i : \A j \in 1..(i - 1) : keys[j] # keys[i])

\* a missing `if (!grouped[key])`: the entry is created anew on every
\* iteration, so only the last point of a key is left on it
IndicesOfKeyLast(keys, key) ==
    SelectSeq([i \in DOMAIN keys |-> i],
              LAMBDA i : keys[i] = key /\ \A j \in (i + 1)..Len(keys) : keys[j] # key)

\* the iterations that push onto the entry of key, in iteration order
IndicesOfKey(keys, key) ==
    SelectSeq([i \in DOMAIN keys |-> i], LAMBDA i : keys[i] = key)

\* the entry of key once the points at indices is have been pushed onto it
Entry(s, key, is) ==
    [ key       |-> key,
      cloud     |-> [i \in DOMAIN is |-> s[is[i]].cloud_cover_pct],
      lightning |-> [i \in DOMAIN is |-> s[is[i]].lightning_prob_pct] ]

\* the object's entries in insertion order: the k-th entry is created at the
\* k-th first-seen index, and every point is pushed onto its key's entry
Entries(s, keys, firsts) ==
    [k \in DOMAIN firsts |->
        Entry(s, keys[firsts[k]], IndicesOfKey(keys, keys[firsts[k]]))]

GroupedByKeys(s, keys) == Entries(s, keys, FirstSeen(keys))

\* `grouped` after series.forEach
Grouped(s, agg, zone) == GroupedByKeys(s, Keys(s, agg, zone))

\* a copy-paste slip: the lightning mean taken over the cloud array
BucketPointCopied(e) ==
    [ label              |-> e.key,
      cloud_cover_pct    |-> DivBy(ReduceSum(e.cloud), Len(e.cloud)),
      lightning_prob_pct |-> DivBy(ReduceSum(e.cloud), Len(e.cloud)),
      timestamp          |-> e.key ]

\* a missing division: the sums instead of the means
BucketPointSummed(e) ==
    [ label              |-> e.key,
      cloud_cover_pct    |-> ReduceSum(e.cloud),
      lightning_prob_pct |-> ReduceSum(e.lightning),
      timestamp          |-> e.key ]

\* Object.entries(grouped).map(([key, v]) => ({...}))
BucketPoint(e) ==
    [ label              |-> e.key,
      cloud_cover_pct    |-> DivBy(ReduceSum(e.cloud), Len(e.cloud)),
      lightning_prob_pct |-> DivBy(ReduceSum(e.lightning), Len(e.lightning)),
      timestamp          |-> e.key ]

\* the entries in the opposite of insertion order
ObjectEntriesReversed(grouped) ==
    [k \in 1..Len(grouped) |-> grouped[Len(grouped) + 1 - k]]

\* Object.entries of an object with non-index string keys: insertion order
ObjectEntries(grouped) == grouped

\* an off-by-one threshold: `series.length < 24`
UseHourlyStrict(s, agg) == agg = "hourly" \/ Len(s) < HourlyMax

\* the `agg === 'hourly' || series.length <= 24` test
UseHourly(s, agg) == agg = "hourly" \/ Len(s) <= HourlyMax

\* entries.map(([key, v]) => ({...}))
MapEntries(es) == [i \in DOMAIN es |-> BucketPoint(es[i])]

aggregateData(s, agg, zone) ==
    IF UseHourly(s, agg) THEN HourlyMap(s, zone)
    ELSE MapEntries(ObjectEntries(Grouped(s, agg, zone)))

----------------------------------------------------------------------------
(* The input series: TimeSeriesPoint[] of types.ts *)

\* the timestamp string of a UTC-or-wall minute count, with its designator
WithZone(c, z) == <<c[1], c[2], c[3], c[4], c[5], z>>

Stamp(minutes, z) == WithZone(Components(minutes), z)

CloudValues == <<0, 25, 50, 100, 75>>
LightningValues == <<0, 10, 40>>

\* the i-th point of the series (start, step, z, seed)
PointAt(i, start, step, z, seed) ==
    [ timestamp          |-> Stamp(start + (i - 1) * step, z),
      cloud_cover_pct    |-> Rat(CloudValues[((i + seed) % Len(CloudValues)) + 1], 1),
      lightning_prob_pct |->
          Rat(LightningValues[((i * (seed + 2)) % Len(LightningValues)) + 1], 1) ]

MakeSeries(n, start, step, z, seed) ==
    [i \in 1..n |-> PointAt(i, start, step, z, seed)]

AllSeries ==
    { MakeSeries(n, start, step, z, seed) :
        n \in Lengths, start \in Starts, step \in Steps,
        z \in {0, 1}, seed \in 0..MaxSeed }

----------------------------------------------------------------------------
(* App.tsx and SearchBar.tsx: state after mount *)

Null == <<>>

Some(x) == <<x>>

\* useState initial values of App and SearchBar
AppMounted ==
    /\ weatherData = Null
    /\ aiPatterns = Null
    /\ loading = FALSE
    /\ error = Null
    /\ searches = <<>>
    /\ finished = Null
    /\ query = ""
    /\ results = <<>>
    /\ showResults = FALSE
    /\ selectedResult = Null
    /\ debounce = Null
    /\ lookups = <<>>
    /\ focused = FALSE
    /\ blurTimers = 0

\* `{aiPatterns && <AIPatternsPanel .../>}` with aiPatterns null: no panel
PanelUnmounted ==
    /\ patterns = Null
    /\ panel = Null

----------------------------------------------------------------------------
(* WeatherCharts: the component's state machine *)

\* mount: aggregation starts 'hourly', chartData is the memo's first value
ChartsInit ==
    /\ tz \in TimeZones
    /\ series \in AllSeries
    /\ aggregation = "hourly"
    /\ chartData = aggregateData(series, aggregation, tz)
    /\ AppMounted
    /\ PanelUnmounted

\* onClick={() => setAggregation(agg)}, then the memo recomputes
SetAggregation(agg) ==
    /\ aggregation' = agg
    /\ chartData' = aggregateData(series, agg, tz)
    /\ UNCHANGED <<series, tz, appVars, barVars, panelVars>>

ClickAggregationTab == \E agg \in AggregationType : SetAggregation(agg)

ChartsNext == ClickAggregationTab

SpecCharts == ChartsInit /\ [][ChartsNext]_vars

----------------------------------------------------------------------------
(* App.tsx: handleSearch and fetchWeatherByCoords *)

\* the candidates the geocoding endpoint returns (LocationResult)
Stockholm == [display_name |-> "Stockholm", lat |-> 59, lon |-> 18]
Oslo      == [display_name |-> "Oslo", lat |-> 60, lon |-> 11]

\* data.results of a /api/search response
ResultLists == {<<>>, <<Stockholm, Oslo>>}

\* texts the user types into the input
TypedQueries == {"", "s", "st"}

\* query.trim().length
TrimLength(q) ==
    CASE q = ""          -> 0
      [] q = "s"         -> 1
      [] q = "st"        -> 2
      [] q = "Oslo"      -> 4
      [] q = "Stockholm" -> 9

\* how a fetch and the reading of its body end: an OK response with a JSON
\* body, an OK response whose body does not parse, a non-OK response, a
\* rejected fetch
Outcomes == {"ok", "badjson", "notok", "reject"}

\* why the backend answers /api/weather/by-address with a non-OK response
Causes == {"location", "forecast"}

\* messages of the errors thrown
FetchRejected     == "Failed to fetch"
BodyUnparsable    == "Unexpected token"
WeatherFailed     == "Failed to fetch weather"
LocationNotFound  == "Location not found"
\* err.detail of a failing by-address response, by its cause
DetailOf(cause)   ==
    IF cause = "location" THEN "detail: location" ELSE "detail: forecast"

\* a call of handleSearch that has reached its first await
NewSearch(path) ==
    [ path    |-> path,      \* "coords": selected given, "address": by query
      pc      |-> IF path = "coords" THEN "awaitAll" ELSE "awaitAddress",
      weather |-> "pending", \* outcome of the weather request
      ai      |-> IF path = "coords" THEN "pending" ELSE "none",
      cause   |-> "none",    \* cause of a non-OK by-address response
      detail  |-> FALSE ]    \* whether that response's body has a detail

\* a call that has returned: nothing of it is left to run
Returned == [NewSearch("address") EXCEPT !.pc = "done", !.ai = "none"]

\* setLoading(true); setError(null); and the fetches up to the first await
StartSearch(path) ==
    /\ Len(searches) < MaxSearches
    /\ searches' = Append(searches, NewSearch(path))
    /\ loading' = TRUE
    /\ error' = Null
    /\ UNCHANGED <<weatherData, aiPatterns, finished>>

\* catch (e) { setError(e.message); setWeatherData(null); setAiPatterns(null) }
\* finally { setLoading(false) }
CatchAndFinally(message) ==
    /\ error' = Some(message)
    /\ weatherData' = Null
    /\ aiPatterns' = Null
    /\ loading' = FALSE

\* search t moves to pc, with the outcomes it has learnt
Move(t, pc, weather, ai) ==
    /\ searches' = [searches EXCEPT ![t].pc = pc, ![t].weather = weather, ![t].ai = ai]
    /\ UNCHANGED finished

Goto(t, pc) ==
    /\ searches' = [searches EXCEPT ![t].pc = pc]
    /\ UNCHANGED finished

\* search t returns, having met the outcomes weather and ai
Finish(t, weather, ai) ==
    /\ searches' = [searches EXCEPT ![t] = Returned]
    /\ finished' = Some([searches[t] EXCEPT !.pc = "done", !.weather = weather,
                                            !.ai = ai])

\* When fetchWeatherByCoords returns, the `await fetchWeatherByCoords(...)` of
\* handleSearch resumes in a microtask, before any event, timer or response
\* is handled, and its finally block sets loading to false once more: the
\* two are one step.

\* fetchWeatherByCoords: `await Promise.all([fetch weather, fetch ai])` settles;
\* a rejected fetch rejects it, a non-OK weather response throws
CoordsSettled(t, w, a) ==
    /\ searches[t].pc = "awaitAll"
    /\ IF w = "reject" \/ a = "reject"
       THEN /\ CatchAndFinally(FetchRejected)
            /\ Finish(t, w, a)
       ELSE IF w = "notok"
       THEN /\ CatchAndFinally(WeatherFailed)
            /\ Finish(t, w, a)
       ELSE /\ Move(t, "awaitWeatherJson", w, a)
            /\ UNCHANGED <<weatherData, aiPatterns, loading, error>>
    /\ UNCHANGED barVars

PromiseAllSettles ==
    /\ \E t \in DOMAIN searches : \E w \in Outcomes : \E a \in Outcomes :
           CoordsSettled(t, w, a)
    /\ UNCHANGED viewVars

\* fetchWeatherByCoords: `await weatherRes.json()` settles, setWeatherData,
\* then `if (aiRes.ok)` awaits aiRes.json(), else setAiPatterns(null) and
\* the finally block
CoordsWeatherJson(t) ==
    /\ searches[t].pc = "awaitWeatherJson"
    /\ IF searches[t].weather = "badjson"
       THEN /\ CatchAndFinally(BodyUnparsable)
            /\ Finish(t, searches[t].weather, searches[t].ai)
       ELSE IF searches[t].ai = "notok"
       THEN /\ weatherData' = Some(t)
            /\ aiPatterns' = Null
            /\ loading' = FALSE
            /\ Finish(t, searches[t].weather, searches[t].ai)
            /\ UNCHANGED error
       ELSE /\ weatherData' = Some(t)
            /\ Goto(t, "awaitAiJson")
            /\ UNCHANGED <<aiPatterns, loading, error>>
    /\ UNCHANGED barVars

WeatherBodyRead ==
    /\ \E t \in DOMAIN searches : CoordsWeatherJson(t)
    /\ UNCHANGED viewVars

\* fetchWeatherByCoords: `await aiRes.json()` settles, setAiPatterns(ai), finally
CoordsAiJson(t) ==
    /\ searches[t].pc = "awaitAiJson"
    /\ IF searches[t].ai = "badjson"
       THEN CatchAndFinally(BodyUnparsable)
       ELSE /\ aiPatterns' = Some(t)
            /\ loading' = FALSE
            /\ UNCHANGED <<weatherData, error>>
    /\ Finish(t, searches[t].weather, searches[t].ai)
    /\ UNCHANGED barVars

AiBodyRead ==
    /\ \E t \in DOMAIN searches : CoordsAiJson(t)
    /\ UNCHANGED viewVars

\* handleSearch: `await fetch(/api/weather/by-address)` settles
AddressSettled(t, w, cause, detail) ==
    /\ searches[t].pc = "awaitAddress"
    /\ IF w = "reject"
       THEN /\ CatchAndFinally(FetchRejected)
            /\ Finish(t, w, "none")
       ELSE IF w = "notok"
       THEN /\ searches' = [searches EXCEPT ![t].pc = "awaitErrorBody",
                                            ![t].weather = w,
                                            ![t].cause = cause,
                                            ![t].detail = detail]
            /\ UNCHANGED <<weatherData, aiPatterns, loading, error, finished>>
       ELSE /\ Move(t, "awaitDataJson", w, "none")
            /\ UNCHANGED <<weatherData, aiPatterns, loading, error>>
    /\ UNCHANGED barVars

ByAddressSettles ==
    /\ \E t \in DOMAIN searches : \E w \in Outcomes :
           \E cause \in Causes : \E detail \in BOOLEAN :
               AddressSettled(t, w, cause, detail)
    /\ UNCHANGED viewVars

\* handleSearch: `await res.json().catch(() => ({}))` settles, then
\* throw new Error(err.detail || 'Location not found')
AddressErrorBody(t) ==
    /\ searches[t].pc = "awaitErrorBody"
    /\ CatchAndFinally(IF searches[t].detail THEN DetailOf(searches[t].cause)
                       ELSE LocationNotFound)
    /\ Finish(t, "notok", "none")
    /\ UNCHANGED barVars

ErrorBodyRead ==
    /\ \E t \in DOMAIN searches : AddressErrorBody(t)
    /\ UNCHANGED viewVars

\* handleSearch: `await res.json()` settles, setWeatherData(data), then the
\* ai-patterns fetch is issued
AddressDataJson(t) ==
    /\ searches[t].pc = "awaitDataJson"
    /\ IF searches[t].weather = "badjson"
       THEN /\ CatchAndFinally(BodyUnparsable)
            /\ Finish(t, "badjson", "none")
       ELSE /\ weatherData' = Some(t)
            /\ Move(t, "awaitAi", "ok", "pending")
            /\ UNCHANGED <<aiPatterns, loading, error>>
    /\ UNCHANGED barVars

DataBodyRead ==
    /\ \E t \in DOMAIN searches : AddressDataJson(t)
    /\ UNCHANGED viewVars

\* handleSearch: `await fetch(/api/ai-patterns)` settles
AddressAiSettled(t, a) ==
    /\ searches[t].pc = "awaitAi"
    /\ IF a = "reject"
       THEN /\ CatchAndFinally(FetchRejected)
            /\ Finish(t, "ok", a)
       ELSE IF a = "notok"
       THEN /\ aiPatterns' = Null
            /\ loading' = FALSE
            /\ Finish(t, "ok", a)
            /\ UNCHANGED <<weatherData, error>>
       ELSE /\ Move(t, "awaitAddressAiJson", "ok", a)
            /\ UNCHANGED <<weatherData, aiPatterns, loading, error>>
    /\ UNCHANGED barVars

AiPatternsSettles ==
    /\ \E t \in DOMAIN searches : \E a \in Outcomes : AddressAiSettled(t, a)
    /\ UNCHANGED viewVars

\* handleSearch: setAiPatterns(await aiRes.json()), finally
AddressAiJson(t) ==
    /\ searches[t].pc = "awaitAddressAiJson"
    /\ IF searches[t].ai = "badjson"
       THEN CatchAndFinally(BodyUnparsable)
       ELSE /\ aiPatterns' = Some(t)
            /\ loading' = FALSE
            /\ UNCHANGED <<weatherData, error>>
    /\ Finish(t, "ok", searches[t].ai)
    /\ UNCHANGED barVars

AddressAiBodyRead ==
    /\ \E t \in DOMAIN searches : AddressAiJson(t)
    /\ UNCHANGED viewVars

----------------------------------------------------------------------------
(* SearchBar.tsx *)

\* the useEffect on [query, searchLocations] after query became q: the
\* previous effect's cleanup clears its timer; a short query empties the
\* list, a longer one starts the 300 ms timer
QueryEffect(q) ==
    IF TrimLength(q) < 2
    THEN /\ results' = <<>>
         /\ showResults' = FALSE
         /\ debounce' = Null
    ELSE /\ debounce' = Some(q)
         /\ UNCHANGED results

\* onChange: setQuery(e.target.value); setShowResults(false); the user types
\* into the focused input, which is disabled while loading
ChangeQuery(q) ==
    /\ ~loading
    /\ focused
    /\ q # query
    /\ query' = q
    /\ showResults' = FALSE
    /\ QueryEffect(q)
    /\ UNCHANGED <<selectedResult, lookups, focused, blurTimers, appVars>>

TypeQuery ==
    /\ \E q \in TypedQueries : ChangeQuery(q)
    /\ UNCHANGED viewVars

\* the debounce timer fires: searchLocations() issues fetch(/api/search)
DebounceFires ==
    /\ debounce # Null
    /\ Len(lookups) < MaxLookups
    /\ lookups' = Append(lookups, debounce[1])
    /\ debounce' = Null
    /\ UNCHANGED <<query, results, showResults, selectedResult, focused,
                   blurTimers, appVars, viewVars>>

\* lookups without its i-th request
Without(seq, i) == [k \in 1..(Len(seq) - 1) |-> IF k < i THEN seq[k] ELSE seq[k + 1]]

\* searchLocations: the fetch of request i settles: a non-OK response
\* returns, a body sets the list, an exception empties it
LookupSettled(i, outcome, list) ==
    /\ lookups' = Without(lookups, i)
    /\ IF outcome = "ok"
       THEN /\ results' = list
            /\ showResults' = TRUE
            /\ selectedResult' = Null
       ELSE IF outcome = "notok"
       THEN UNCHANGED <<results, showResults, selectedResult>>
       ELSE /\ results' = <<>>
            /\ UNCHANGED <<showResults, selectedResult>>
    /\ UNCHANGED <<query, debounce, focused, blurTimers, appVars>>

LookupSettles ==
    /\ \E i \in DOMAIN lookups : \E outcome \in Outcomes : \E list \in ResultLists :
           LookupSettled(i, outcome, list)
    /\ UNCHANGED viewVars

\* onFocus: the user puts the focus on the input (a disabled input takes none)
FocusInput ==
    /\ ~loading
    /\ ~focused
    /\ focused' = TRUE
    /\ showResults' = IF Len(results) > 0 THEN TRUE ELSE showResults
    /\ UNCHANGED <<query, results, selectedResult, debounce, lookups, blurTimers,
                   appVars, viewVars>>

\* onBlur: the focus leaves the input; the handler starts a 200 ms timer
BlurInput ==
    /\ focused
    /\ blurTimers < MaxBlurTimers
    /\ focused' = FALSE
    /\ blurTimers' = blurTimers + 1
    /\ UNCHANGED <<query, results, showResults, selectedResult, debounce, lookups,
                   appVars, viewVars>>

\* a timer of onBlur fires: setShowResults(false)
BlurTimerFires ==
    /\ blurTimers > 0
    /\ blurTimers' = blurTimers - 1
    /\ showResults' = FALSE
    /\ UNCHANGED <<query, results, selectedResult, debounce, lookups, focused,
                   appVars, viewVars>>

\* `disabled={loading}` turns true: the input loses the focus; whether a
\* blur event is dispatched to an element that loses the focus by being
\* disabled depends on the browser
InputDisabled ==
    /\ focused' = FALSE
    /\ \/ blurTimers' = blurTimers
       \/ /\ focused
          /\ blurTimers < MaxBlurTimers
          /\ blurTimers' = blurTimers + 1

\* handleSubmit: the submit button and the input are disabled while loading
HandleSubmit ==
    /\ ~loading
    /\ TrimLength(query) > 0
    /\ StartSearch(IF selectedResult # Null THEN "coords" ELSE "address")
    /\ showResults' = FALSE
    /\ InputDisabled
    /\ UNCHANGED <<query, results, selectedResult, debounce, lookups, viewVars>>

\* handleSelect: a click on candidate r of the list shown (the list is not
\* disabled while loading; onMouseDown's preventDefault keeps the focus)
HandleSelect(r) ==
    /\ showResults
    /\ selectedResult' = Some(r)
    /\ query' = r.display_name
    /\ showResults' = FALSE
    /\ StartSearch("coords")
    /\ IF r.display_name # query
       THEN debounce' = Some(r.display_name)
       ELSE UNCHANGED debounce
    /\ InputDisabled
    /\ UNCHANGED <<results, lookups>>

ClickCandidate ==
    /\ \E i \in DOMAIN results : HandleSelect(results[i])
    /\ UNCHANGED viewVars

----------------------------------------------------------------------------
(* App with its SearchBar *)

AppInit ==
    /\ AppMounted
    /\ PanelUnmounted
    /\ series = <<>>
    /\ aggregation = "hourly"
    /\ chartData = <<>>
    /\ tz = 0

AppNext ==
    \/ FocusInput
    \/ BlurInput
    \/ BlurTimerFires
    \/ TypeQuery
    \/ DebounceFires
    \/ LookupSettles
    \/ HandleSubmit
    \/ ClickCandidate
    \/ PromiseAllSettles
    \/ WeatherBodyRead
    \/ AiBodyRead
    \/ ByAddressSettles
    \/ ErrorBodyRead
    \/ DataBodyRead
    \/ AiPatternsSettles
    \/ AddressAiBodyRead

SpecApp == AppInit /\ [][AppNext]_vars

----------------------------------------------------------------------------
(* AIPatternsPanel.tsx.  A pattern name is the sequence of its characters. *)
(* A string printed by toFixed(f) is given by the integer of its digits:   *)
(* <<n, f>> stands for the decimal numeral of n / 10^f with f decimals.    *)

\* x * 100
TimesHundred(x) == Rat(x.n * 100, x.d)

RECURSIVE PowerOfTen(_)
PowerOfTen(f) == IF f = 0 THEN 1 ELSE 10 * PowerOfTen(f - 1)

\* x.toFixed(f) for x >= 0: the integer n with n / 10^f nearest to x, the
\* larger n on a tie
toFixed(x, f) == <<(2 * x.n * PowerOfTen(f) + x.d) \div (2 * x.d), f>>

\* name.replace(/_/g, ' ')
ReplaceUnderscores(name) ==
    [i \in DOMAIN name |-> IF name[i] = "_" THEN " " ELSE name[i]]

\* one pattern-card: the name, the width of the bar (`${p.probability * 100}%`)
\* and the percentage printed
PatternCard(p) ==
    [ key   |-> p.name,
      name  |-> ReplaceUnderscores(p.name),
      width |-> TimesHundred(p.probability),
      pct   |-> toFixed(TimesHundred(p.probability), 0) ]

\* `!data?.patterns?.length`
NoPatterns(data) ==
    \/ "patterns" \notin DOMAIN data
    \/ Len(data.patterns) = 0

\* what the component returns for props.patterns = data
AIPatternsPanel(data) ==
    IF NoPatterns(data) THEN Null
    ELSE Some([ summary |-> data.summary,
                risk    |-> toFixed(TimesHundred(data.convective_risk), 1),
                cards   |-> [i \in DOMAIN data.patterns |->
                                PatternCard(data.patterns[i])] ])

\* most patterns of a pattern result
MaxPatterns == 2

PatternNames == {<<"c", "_", "r">>, <<"s", "t">>}
Probabilities == {Rat(0, 1), Rat(1, 8), Rat(1, 2), Rat(1, 1)}
Risks == {Rat(0, 1), Rat(1, 16), Rat(1, 1)}
Summaries == {"Stable conditions"}

Pattern == [name : PatternNames, probability : Probabilities]

PatternLists == UNION {[1..n -> Pattern] : n \in 0..MaxPatterns}

\* the pattern results of /api/ai-patterns
PatternResults ==
    [ patterns : PatternLists, convective_risk : Risks,
      summary : Summaries, degraded : BOOLEAN ]
        \cup {[detail |-> "Model unavailable"]}

\* `{aiPatterns && <AIPatternsPanel patterns={aiPatterns} />}`: the panel
\* rendered for the pattern result r
RenderPanel(r) ==
    /\ patterns' = Some(r)
    /\ panel' = AIPatternsPanel(r)

\* setAiPatterns(ai) at the end of a search: the panel renders
SetAiPatterns ==
    /\ \E r \in PatternResults : RenderPanel(r)
    /\ UNCHANGED <<chartVars, appVars, barVars>>

PanelNext == SetAiPatterns

\* the panel starts unmounted, as App starts with aiPatterns null
SpecPanel == AppInit /\ [][PanelNext]_vars

----------------------------------------------------------------------------
(* Claims about aggregateData *)

\* the series was long enough to be bucketed and a bucketed tab is selected
Bucketed == aggregation # "hourly" /\ Len(series) > HourlyMax

\* the key a timestamp string carries in its own calendar components
OwnKey(ts, agg) ==
    IF agg = "daily" THEN <<ts[1], ts[2], ts[3]>> ELSE <<ts[1], ts[2]>>

Labels(cd) == {cd[i].label : i \in DOMAIN cd}

\* a * k for an integer k
Times(a, k) == Rat(a.n * k, a.d)

\* lexicographic order on tuples of integers
LexLess(a, b) ==
    \E i \in 1..Len(a) :
        /\ i <= Len(b)
        /\ a[i] < b[i]
        /\ \A j \in 1..(i - 1) : a[j] = b[j]

\* C1: a series of at most 24 points gets, for every resolution, the output
\* of resolution 'hourly'; a longer series is bucketed by daily and monthly:
\* its labels are exactly the bucket keys of its points.
C1_ShortCircuit ==
    /\ Len(series) <= HourlyMax
          => chartData = aggregateData(series, "hourly", tz)
    /\ Bucketed
          => /\ Labels(chartData)
                  = {BucketKey(series[j], aggregation, tz) : j \in DOMAIN series}
             /\ \A i \in DOMAIN chartData :
                    /\ chartData[i].timestamp = chartData[i].label
                    /\ Len(chartData[i].label) = IF aggregation = "daily" THEN 3 ELSE 2

\* a daily or monthly request of a series of exactly 24 points with several
\* timestamps has been answered
C1_Witness ==
    /\ Len(series) = HourlyMax
    /\ aggregation \in {"daily", "monthly"}
    /\ chartData = HourlyMap(series, tz)

\* C2: the bucket keys are the timestamps' own date (year-month) parts, in
\* whatever timezone aggregateData runs.
C2_OwnComponentKeys ==
    Bucketed =>
        Labels(chartData)
            = {OwnKey(series[j].timestamp, aggregation) : j \in DOMAIN series}

\* C3: each bucket's two values are the arithmetic means, each over its own
\* field, of exactly the input points whose key is the bucket's label.
C3_BucketMeans ==
    Bucketed =>
        \A i \in DOMAIN chartData :
            LET b      == chartData[i]
                member == [j \in DOMAIN series |->
                              BucketKey(series[j], aggregation, tz) = b.label]
                count  == Cardinality({j \in DOMAIN series : member[j]})
                clouds == [j \in DOMAIN series |->
                              IF member[j] THEN series[j].cloud_cover_pct
                              ELSE Rat(0, 1)]
                lights == [j \in DOMAIN series |->
                              IF member[j] THEN series[j].lightning_prob_pct
                              ELSE Rat(0, 1)]
            IN  /\ count > 0
                /\ Times(b.cloud_cover_pct, count) = SumRange(clouds, 1, Len(series))
                /\ Times(b.lightning_prob_pct, count) = SumRange(lights, 1, Len(series))

\* a bucketed output with at least two buckets whose two means differ
C3_Witness ==
    /\ Bucketed
    /\ Len(chartData) >= 2
    /\ \E i \in DOMAIN chartData :
           chartData[i].cloud_cover_pct # chartData[i].lightning_prob_pct

\* C4: a run of aggregateData on the same series and resolution in any other
\* environment timezone gives the output of this run (stated for the
\* bucketed resolutions, where the output has no local-time label).
C4_SameOutputInEveryTimezone ==
    Bucketed =>
        \A zone \in TimeZones : aggregateData(series, aggregation, zone) = chartData

\* the calendar dates the timestamps carry
OwnDates(s) == {OwnKey(s[j].timestamp, "daily") : j \in DOMAIN s}

\* the mean of a field over the points of s whose own date is date
OwnDateMean(s, date, field) ==
    LET member == [j \in DOMAIN s |-> OwnKey(s[j].timestamp, "daily") = date]
        vals   == [j \in DOMAIN s |-> IF member[j] THEN s[j][field] ELSE Rat(0, 1)]
    IN  DivBy(SumRange(vals, 1, Len(s)), Cardinality({j \in DOMAIN s : member[j]}))

\* C5: daily aggregation of a series longer than 24 points has one bucket
\* per calendar date of the timestamps; 48 points on two dates give exactly
\* 2 buckets, each with the means of its date's points.
C5_OneBucketPerDate ==
    (aggregation = "daily" /\ Len(series) > HourlyMax) =>
        /\ Len(chartData) = Cardinality(OwnDates(series))
        /\ (Len(series) = 48 /\ Cardinality(OwnDates(series)) = 2) =>
              /\ Len(chartData) = 2
              /\ \A i \in DOMAIN chartData :
                    /\ chartData[i].label \in OwnDates(series)
                    /\ chartData[i].cloud_cover_pct
                         = OwnDateMean(series, chartData[i].label, "cloud_cover_pct")
                    /\ chartData[i].lightning_prob_pct
                         = OwnDateMean(series, chartData[i].label, "lightning_prob_pct")

\* C6: the hourly output has one point per input point, in input order, each
\* with its input point's timestamp and two percentages.
C6_HourlyIdentity ==
    aggregation = "hourly" =>
        /\ Len(chartData) = Len(series)
        /\ \A i \in DOMAIN series :
              /\ DOMAIN chartData[i] = DOMAIN series[i] \cup {"label"}
              /\ chartData[i].timestamp = series[i].timestamp
              /\ chartData[i].cloud_cover_pct = series[i].cloud_cover_pct
              /\ chartData[i].lightning_prob_pct = series[i].lightning_prob_pct

\* an hourly output of a series longer than the threshold
C6_Witness ==
    /\ aggregation = "hourly"
    /\ Len(series) > HourlyMax
    /\ Len(chartData) = Len(series)
    /\ \E i \in DOMAIN series :
           series[i].cloud_cover_pct # series[i].lightning_prob_pct

\* the first index of the series whose key is label
FirstIndexOf(label) ==
    CHOOSE j \in DOMAIN series :
        /\ BucketKey(series[j], aggregation, tz) = label
        /\ \A k \in 1..(j - 1) : BucketKey(series[k], aggregation, tz) # label

\* the series is sorted strictly ascending by timestamp
Ascending(s) ==
    \A j \in 1..(Len(s) - 1) :
        parseISO(s[j].timestamp, tz) < parseISO(s[j + 1].timestamp, tz)

\* C7: the buckets come in first-seen order of their keys, no key twice; for
\* a strictly ascending series the labels are strictly ascending.
C7_FirstSeenOrder ==
    Bucketed =>
        /\ \A a, b \in DOMAIN chartData :
              a < b => FirstIndexOf(chartData[a].label) < FirstIndexOf(chartData[b].label)
        /\ Ascending(series) =>
              \A a, b \in DOMAIN chartData :
                  a < b => LexLess(chartData[a].label, chartData[b].label)

\* at least three buckets of an ascending series
C7_Witness ==
    /\ Bucketed
    /\ Len(chartData) >= 3
    /\ Ascending(series)

----------------------------------------------------------------------------
(* Claims about the search flows of App *)

\* no call of handleSearch is in flight
NoSearchInFlight == \A t \in DOMAIN searches : searches[t].pc = "done"

\* the call ended in its catch block: its weather request failed, or its
\* ai-patterns request was rejected or had an unparsable body
EndedInCatch(s) == s.weather # "ok" \/ s.ai \in {"reject", "badjson"}

\* the only search started has returned
OnlySearchReturned ==
    /\ Len(searches) = 1
    /\ NoSearchInFlight
    /\ finished # Null

\* C8: a search whose weather request succeeded and whose ai-patterns
\* request failed (non-OK response, rejected fetch or unparsable body) ends
\* with the weather data set, no error and no patterns.
C8_PatternFailureIsSoft ==
    ( /\ OnlySearchReturned
      /\ finished[1].weather = "ok"
      /\ finished[1].ai \in {"notok", "reject", "badjson"} )
        => /\ weatherData # Null
           /\ error = Null
           /\ aiPatterns = Null

\* C9: with no search in flight, an error and weather data are never both
\* present, and after a failed search neither weather data nor patterns are.
C9_ErrorExcludesData ==
    NoSearchInFlight =>
        /\ ~(error # Null /\ weatherData # Null)
        /\ (finished # Null /\ EndedInCatch(finished[1]))
               => (weatherData = Null /\ aiPatterns = Null)

\* C10: a by-address search that failed shows 'Location not found' only when
\* the backend failed to resolve the location.
C10_NotFoundOnlyForLocation ==
    ( /\ OnlySearchReturned
      /\ finished[1].path = "address"
      /\ error = Some(LocationNotFound) )
        => finished[1].cause = "location"

\* C11: a search whose weather request got a non-OK response (a location
\* outside the Nordic region) ends with the message 'Location not found', on
\* the by-address path and on the coordinates path.  Where the by-address
\* path shows the detail text of the backend's own body, that text stands.
C11_NotFoundOnEveryPath ==
    ( /\ OnlySearchReturned
      /\ finished[1].weather = "notok" )
        => \/ error = Some(LocationNotFound)
           \/ finished[1].path = "address" /\ finished[1].detail

\* C12: the panel rendered for a degraded pattern result differs from the
\* panel rendered for the same result with degraded = false.
C12_DegradedIsMarked ==
    (patterns # Null /\ ~NoPatterns(patterns[1]) /\ patterns[1].degraded)
        => panel # AIPatternsPanel([patterns[1] EXCEPT !.degraded = FALSE])

\* 0 <= x <= 100
InRange(x) == 0 <= x.n /\ x.n <= 100 * x.d

AllInRange(s) ==
    \A i \in DOMAIN s :
        InRange(s[i].cloud_cover_pct) /\ InRange(s[i].lightning_prob_pct)

\* C13: when both percentages of every input point lie in [0,100], both
\* percentages of every point aggregateData emits lie in [0,100].
C13_PercentagesInRange == AllInRange(series) => AllInRange(chartData)

\* a bucketed output whose input has both ends of the range and one of
\* whose means is not a whole number
C13_Witness ==
    /\ Bucketed
    /\ AllInRange(series)
    /\ \E j \in DOMAIN series : series[j].cloud_cover_pct = Rat(100, 1)
    /\ \E j \in DOMAIN series : series[j].cloud_cover_pct = Rat(0, 1)
    /\ \E i \in DOMAIN chartData : chartData[i].cloud_cover_pct.d > 1

\* the number of points on the first k entries of grouped
RECURSIVE SizeUpTo(_, _)
SizeUpTo(g, k) == IF k = 0 THEN 0 ELSE SizeUpTo(g, k - 1) + Len(g[k].cloud)

\* C18: for a bucketed series every input point is on exactly one entry of
\* grouped: the entries' sizes sum to the series length, no entry is empty,
\* and there are between 1 and Len(series) buckets, one emitted per entry.
C18_BucketsPartition ==
    Bucketed =>
        LET g == Grouped(series, aggregation, tz)
        IN  /\ Len(chartData) = Len(g)
            /\ Len(chartData) >= 1
            /\ Len(chartData) <= Len(series)
            /\ SizeUpTo(g, Len(g)) = Len(series)
            /\ \A k \in DOMAIN g :
                  /\ Len(g[k].cloud) >= 1
                  /\ Len(g[k].lightning) = Len(g[k].cloud)
                  /\ chartData[k].label = g[k].key
            /\ \A j \in DOMAIN series :
                  Cardinality({k \in DOMAIN g :
                      g[k].key = BucketKey(series[j], aggregation, tz)}) = 1

\* buckets of different sizes, one of them of a single point
C18_Witness ==
    /\ Bucketed
    /\ \E a, b \in DOMAIN Grouped(series, aggregation, tz) :
          /\ Len(Grouped(series, aggregation, tz)[a].cloud) = 1
          /\ Len(Grouped(series, aggregation, tz)[b].cloud) > 1

\* C14: once no search is in flight, the weather data shown is that of the
\* search started last (or none, when that search failed).
C14_LatestSearchWins ==
    (NoSearchInFlight /\ weatherData # Null)
        => weatherData = Some(Len(searches))

\* C15: whenever handleSubmit calls onSearch with a selected candidate, the
\* candidate is the one selected for the current text of the query.
C15_SubmitUsesCurrentSelection ==
    [][(HandleSubmit /\ selectedResult # Null)
           => selectedResult[1].display_name = query]_vars

\* C16: while a search has started and not yet returned, loading is true.
C16_LoadingCoversSearches ==
    (\E t \in DOMAIN searches : searches[t].pc # "done") => loading

\* `showResults && results.length > 0`: the list of candidates is rendered
DropdownShown == showResults /\ Len(results) > 0

\* C17: while the trimmed query has fewer than 2 characters the candidate
\* list is empty and the dropdown is hidden, and no location search in
\* flight was issued for a query of fewer than 2 characters.
C17_ShortQueryShowsNothing ==
    /\ TrimLength(query) < 2 => (results = <<>> /\ ~DropdownShown)
    /\ \A i \in DOMAIN lookups : TrimLength(lookups[i]) >= 2

====
